---- MODULE Spec2Model ----
(***************************************************************************)
(* The App component of src/src/App.tsx as a state machine.               *)
(*                                                                         *)
(* State is the component's useState cells plus what is in flight: the    *)
(* handleCreate / handleWrite / handleRead calls suspended at their       *)
(* await, the polls started by the pending-write effect (each with its    *)
(* own AbortController), and the refresh reads started by                 *)
(* clearPendingTxAndRefresh.  A step is one run-to-completion piece of    *)
(* JavaScript: an event handler up to its first await, or the             *)
(* continuation after an await, together with the re-render that its      *)
(* setState calls bring about.  The effects of a render (useEffect) are    *)
(* passive: React runs them in a task of their own after the commit, and   *)
(* at the latest before it renders again.  FlushEffects is that task; a    *)
(* step that renders is taken only once the effects of the previous render *)
(* have run, except the poll's promise handlers, which are called by the   *)
(* SDK whenever the promise settles.                                       *)
(*                                                                         *)
(* The network, the validator and pollForReceiptByTransactionHash belong  *)
(* to @tableland/sdk, a dependency outside the repository.  The component *)
(* hands the poll an AbortSignal and attaches the same handler to both    *)
(* outcomes of its promise (App.tsx:302-307); the handlers do not look at *)
(* signal.aborted.  Every settlement a signal-driven poll can produce is  *)
(* therefore a step here: fulfilled by a "seen" answer to the query in    *)
(* flight, rejected by a failed query, rejected with the abort reason     *)
(* once the signal is aborted, or never settled.                          *)
(***************************************************************************)
EXTENDS Naturals, Sequences, FiniteSets

\* ------------------------------------------------------------- bounds
\* The number of user events in a run: clicks on Connect, Create, Write and
\* Read, and leaving the page.
MaxEvents == 4

\* Chains a wallet can be connected to.  The wallet is on HomeChain when it
\* first connects (the chains are interchangeable) and may have switched to
\* any chain when it connects again.
Chains == {1, 2}
HomeChain == CHOOSE c \in Chains : \A d \in Chains : c <= d

\* `undefined` for the number-valued and string-valued state cells.
Undefined == 0

VARIABLES
    mounted,        \* the component instance is mounted
    signer,         \* useState<Signer>: 0 undefined, else the n-th signer object
    chainId,        \* useState<number>: 0 undefined
    tableName,      \* useState<string>: 0 undefined, else the table's id
    schema,         \* useState<string[]>: [table, from], the table it describes
    data,           \* useState<TableSchema[]>: rows, each named by its tx
    rowCount,       \* useState<number>: [set |-> BOOLEAN, n |-> Nat]
    isLoading,      \* useState<boolean>
    pendingWriteTx, \* useState<string>: 0 undefined, else the tx hash
    creates,        \* handleCreate calls: [chain, st, failed]; st is the await reached
    writes,         \* handleWrite calls: [table, chain, st, over]; the index is the tx
    mreads,         \* handleRead calls: [chain, table, st, n0, n, seq]
    polls,          \* polls started by the effect: [tx, chain, table, aborted, st, supBy]
    livePoll,       \* the poll the current effect instance's cleanup will abort, or 0
    effDeps,        \* the dependency values of the render whose effects ran last
    refreshes,      \* reads issued by clearPendingTxAndRefresh: [poll, tx, chain, table, n0, st]
    applied         \* txs the validator has seen and applied, in order

vars == <<mounted, signer, chainId, tableName, schema, data, rowCount, isLoading,
          pendingWriteTx, creates, writes, mreads, polls, livePoll, effDeps,
          refreshes, applied>>

ui == <<mounted, signer, chainId, tableName, schema, data, rowCount, isLoading, pendingWriteTx>>

NoCount == [set |-> FALSE, n |-> 0]

\* The initial schema, `[]`.
NoSchema == [table |-> Undefined, from |-> "none"]

Init ==
    /\ mounted = TRUE
    /\ signer = Undefined
    /\ chainId = Undefined
    /\ tableName = Undefined
    /\ schema = NoSchema
    /\ data = <<>>
    /\ rowCount = NoCount
    /\ isLoading = FALSE
    /\ pendingWriteTx = Undefined
    /\ creates = <<>>
    /\ writes = <<>>
    /\ mreads = <<>>
    /\ polls = <<>>
    /\ livePoll = 0
    /\ effDeps = [chain |-> Undefined, tx |-> Undefined, table |-> Undefined,
                  signer |-> Undefined]
    /\ refreshes = <<>>
    /\ applied = <<>>

\* ------------------------------------------------------------ helpers

\* User events so far.
Events ==
    signer + Len(creates) + Len(writes) + Len(mreads) + (IF mounted THEN 0 ELSE 1)

InSeq(x, s) == \E i \in DOMAIN s : s[i] = x

\* The rows of table t at the validator: one per applied write to t.
Rows(t) == SelectSeq(applied, LAMBDA x : writes[x].table = t)

\* What read() can return for table t when it was called with n0 rows in the
\* table: the rows as of some moment between the call and its return.
Answers(t, n0) == {SubSeq(Rows(t), 1, k) : k \in n0..Len(Rows(t))}

\* read(chainId, tableName) can return rows only for a table that exists on
\* that chain; `SELECT * FROM undefined` or a table of another chain throws.
ReadOk(c, t) == t # Undefined /\ c # Undefined /\ creates[t].chain = c

\* The validator of chain c answers "seen" for tx once it has applied it.
Seen(tx, c) == InSeq(tx, applied) /\ writes[tx].chain = c

Unsettled(p) == polls[p].st \in {"query", "wait"}

\* Mutant of Abort: a cleanup that does not abort the controller.
AbortMissing(ps, lp, by) == ps

\* controller.abort() of the effect cleanup (App.tsx:308-310); by is the tx
\* whose registration replaced the poll's tx, 0 when there is none.
Abort(ps, lp, by) ==
    IF lp = 0 THEN ps
    ELSE [ps EXCEPT ![lp].aborted = TRUE,
                    ![lp].supBy = IF by # ps[lp].tx THEN by ELSE 0]

NewPoll(tx, c, t) ==
    [tx |-> tx, chain |-> c, table |-> t, aborted |-> FALSE, st |-> "query", supBy |-> 0]

\* The values the effects depend on, as of the committed render: chainId,
\* pendingWriteTx and clearPendingTxAndRefresh (re-created with chainId and
\* tableName) for the pending-write effect; resetTableData (re-created with
\* tableName) and getOwnedTables (re-created with signer) for the reset
\* effect.
CurDeps ==
    [chain |-> chainId, tx |-> pendingWriteTx, table |-> tableName, signer |-> signer]

\* The committed render's effects have not run yet.
EffectsDue == CurDeps # effDeps

\* The reset effect (App.tsx:269-272) is due: it calls resetTableData.
ResetDue == CurDeps.table # effDeps.table \/ CurDeps.signer # effDeps.signer

\* The pending-write effect (App.tsx:279-312) is due.
PollDue ==
    <<CurDeps.chain, CurDeps.tx, CurDeps.table>> # <<effDeps.chain, effDeps.tx, effDeps.table>>

\* The polls and the live poll after the pending-write effect of the
\* committed render has run on the poll list ps: the cleanup of the previous
\* run aborts its controller, then a poll is started if a tx is pending.
AfterPollEffect(ps) ==
    IF ~PollDue THEN [polls |-> ps, live |-> livePoll]
    ELSE LET cleaned == Abort(ps, livePoll, pendingWriteTx) IN
         IF pendingWriteTx # Undefined
         THEN [polls |-> Append(cleaned, NewPoll(pendingWriteTx, chainId, tableName)),
               live |-> Len(ps) + 1]
         ELSE [polls |-> cleaned, live |-> 0]

\* The passive effects of the committed render run (App.tsx:269-272 and
\* 279-312): resetTableData clears data and rowCount, the pending-write
\* effect cleans up and starts the poll.
FlushEffects ==
    /\ mounted
    /\ EffectsDue
    /\ polls' = AfterPollEffect(polls).polls
    /\ livePoll' = AfterPollEffect(polls).live
    /\ data' = IF ResetDue THEN <<>> ELSE data
    /\ rowCount' = IF ResetDue THEN NoCount ELSE rowCount
    /\ effDeps' = CurDeps
    /\ UNCHANGED <<mounted, signer, chainId, tableName, schema, isLoading, pendingWriteTx,
                   creates, writes, mreads, refreshes, applied>>

\* ----------------------------------------------------------- handlers

\* handleConnect (App.tsx:317-325): connect() succeeded on chain c and
\* returned a new signer object.
HandleConnect(c) ==
    /\ mounted
    /\ signer = Undefined => c = HomeChain
    /\ ~EffectsDue
    /\ Events < MaxEvents
    /\ signer' = signer + 1
    /\ chainId' = c
    /\ UNCHANGED <<mounted, tableName, schema, data, rowCount, isLoading, pendingWriteTx,
                   creates, writes, mreads, polls, livePoll, effDeps, refreshes, applied>>

\* The Create button is enabled once a signer is set (App.tsx:414).
CreateEnabled == signer # Undefined

\* handleCreate up to `await create(signer, prefix)` and create() up to its
\* first await, the CREATE TABLE statement (App.tsx:345-351, 83-111).
CreateStart ==
    /\ mounted
    /\ ~EffectsDue
    /\ CreateEnabled
    /\ Events < MaxEvents
    /\ isLoading' = TRUE
    /\ creates' = Append(creates, [chain |-> chainId, st |-> "submit", failed |-> FALSE])
    /\ UNCHANGED <<mounted, signer, chainId, tableName, schema, data, rowCount,
                   pendingWriteTx, writes, mreads, polls, livePoll, effDeps, refreshes, applied>>

\* create() is suspended at one of its awaits.
CreateRunning(i) == ~creates[i].failed /\ creates[i].st # "done"

\* Mutant of CreateSubmitted: a create() that looks the schema up without
\* waiting for the transaction.
CreateSubmittedSkipsWait(i) ==
    /\ mounted
    /\ CreateRunning(i)
    /\ creates[i].st = "submit"
    /\ creates' = [creates EXCEPT ![i].st = "lookup"]
    /\ UNCHANGED <<ui, writes, mreads, polls, livePoll, effDeps, refreshes, applied>>

\* The CREATE TABLE statement was submitted (App.tsx:107-111): create() goes
\* on to `await create.txn?.wait()`.
CreateSubmitted(i) ==
    /\ mounted
    /\ CreateRunning(i)
    /\ creates[i].st = "submit"
    /\ creates' = [creates EXCEPT ![i].st = "wait"]
    /\ UNCHANGED <<ui, writes, mreads, polls, livePoll, effDeps, refreshes, applied>>

\* The create transaction is confirmed, wait() returned (App.tsx:114-115):
\* create() goes on to `await validator.getTableById(...)`.
CreateConfirmed(i) ==
    /\ mounted
    /\ CreateRunning(i)
    /\ creates[i].st = "wait"
    /\ creates' = [creates EXCEPT ![i].st = "lookup"]
    /\ UNCHANGED <<ui, writes, mreads, polls, livePoll, effDeps, refreshes, applied>>

\* getTableById answered and create() returned (App.tsx:120-131, 351-353,
\* 358): the table name and the validator's schema are set.
CreateReturn(i) ==
    /\ mounted
    /\ ~EffectsDue
    /\ CreateRunning(i)
    /\ creates[i].st = "lookup"
    /\ creates' = [creates EXCEPT ![i].st = "done"]
    /\ tableName' = i
    /\ schema' = [table |-> i, from |-> "validator"]
    /\ isLoading' = FALSE
    /\ UNCHANGED <<mounted, signer, chainId, data, rowCount, pendingWriteTx, writes,
                   mreads, polls, livePoll, effDeps, refreshes, applied>>

\* Mutant of CreateFail: a catch block that forgets the table.
CreateFailClearsTable(i) ==
    /\ mounted
    /\ ~EffectsDue
    /\ CreateRunning(i)
    /\ creates' = [creates EXCEPT ![i].failed = TRUE]
    /\ isLoading' = FALSE
    /\ tableName' = Undefined
    /\ schema' = NoSchema
    /\ UNCHANGED <<mounted, signer, chainId, data, rowCount,
                   pendingWriteTx, writes, mreads, polls, livePoll, effDeps, refreshes, applied>>

\* create() threw at the await it had reached: the submission, the
\* confirmation wait or the schema lookup (App.tsx:354-358).
CreateFail(i) ==
    /\ mounted
    /\ ~EffectsDue
    /\ CreateRunning(i)
    /\ creates' = [creates EXCEPT ![i].failed = TRUE]
    /\ isLoading' = FALSE
    /\ UNCHANGED <<mounted, signer, chainId, tableName, schema, data, rowCount,
                   pendingWriteTx, writes, mreads, polls, livePoll, effDeps, refreshes, applied>>

\* Mutant of WriteEnabled: a Write button that is never disabled.
WriteAlwaysEnabled == TRUE

\* The Write button is enabled once signer and tableName are set
\* (App.tsx:429-434).
WriteEnabled == signer # Undefined /\ tableName # Undefined

\* handleWrite up to `await write(signer, tableName, writeData)`
\* (App.tsx:365-368).  over records the pendingWriteTx the click met.
WriteStart ==
    /\ mounted
    /\ WriteEnabled
    /\ Events < MaxEvents
    /\ writes' = Append(writes, [table |-> tableName, chain |-> chainId,
                                 st |-> "submitting", over |-> pendingWriteTx])
    /\ UNCHANGED <<ui, creates, mreads, polls, livePoll, effDeps, refreshes, applied>>

\* write() returned the tx hash: setPendingWriteTx(tx) (App.tsx:369).
WriteReturn(w) ==
    /\ mounted
    /\ ~EffectsDue
    /\ writes[w].st = "submitting"
    /\ writes' = [writes EXCEPT ![w].st = "accepted"]
    /\ pendingWriteTx' = w
    /\ UNCHANGED <<mounted, signer, chainId, tableName, schema, data, rowCount, isLoading,
                   creates, mreads, polls, livePoll, effDeps, refreshes, applied>>

\* Mutant of WriteFail: a handleWrite that registers the failed call as
\* pending.
WriteFailRegisters(w) ==
    /\ mounted
    /\ writes[w].st = "submitting"
    /\ writes' = [writes EXCEPT ![w].st = "failed"]
    /\ pendingWriteTx' = w
    /\ UNCHANGED <<mounted, signer, chainId, tableName, schema, data, rowCount, isLoading,
                   creates, mreads, polls, livePoll, effDeps, refreshes, applied>>

\* write() threw (signer declined, transport failure): handleWrite throws.
\* (Once the component is unmounted nothing observes how a call ends.)
WriteFail(w) ==
    /\ mounted
    /\ writes[w].st = "submitting"
    /\ writes' = [writes EXCEPT ![w].st = "failed"]
    /\ UNCHANGED <<ui, creates, mreads, polls, livePoll, effDeps, refreshes, applied>>

\* The validator sees an accepted write and applies it to its table.
ValidatorSees(w) ==
    /\ writes[w].st = "accepted"
    /\ ~InSeq(w, applied)
    /\ applied' = Append(applied, w)
    /\ UNCHANGED <<ui, creates, writes, mreads, polls, livePoll, effDeps, refreshes>>

\* The handleRead calls that have returned so far.
ReadsDone == Cardinality({i \in DOMAIN mreads : mreads[i].st = "done"})

\* The Read button is enabled while data is non-empty (App.tsx:449-453).
ReadEnabled == Len(data) # 0

\* handleRead up to `await read(chainId, tableName)` (App.tsx:375-378).
ReadStart ==
    /\ mounted
    /\ ~EffectsDue
    /\ ReadEnabled
    /\ Events < MaxEvents
    /\ isLoading' = TRUE
    /\ mreads' = Append(mreads, [chain |-> chainId, table |-> tableName, st |-> "run",
                                 n0 |-> Len(Rows(tableName)), n |-> 0, seq |-> 0])
    /\ UNCHANGED <<mounted, signer, chainId, tableName, schema, data, rowCount,
                   pendingWriteTx, creates, writes, polls, livePoll, effDeps, refreshes, applied>>

\* Mutant of ReadReturn: a handleRead that stores the rows it read in data
\* and leaves rowCount alone.
ReadReturnSetsData(i) ==
    /\ mounted
    /\ ~EffectsDue
    /\ mreads[i].st = "run"
    /\ ReadOk(mreads[i].chain, mreads[i].table)
    /\ \E rows \in Answers(mreads[i].table, mreads[i].n0) :
          /\ mreads' = [mreads EXCEPT ![i].st = "done",
                                      ![i].n = Len(rows),
                                      ![i].seq = ReadsDone + 1]
          /\ data' = rows
    /\ isLoading' = FALSE
    /\ UNCHANGED <<mounted, signer, chainId, tableName, schema, rowCount, pendingWriteTx,
                   creates, writes, polls, livePoll, effDeps, refreshes, applied>>

\* read() returned (App.tsx:379-380).
ReadReturn(i) ==
    /\ mounted
    /\ ~EffectsDue
    /\ mreads[i].st = "run"
    /\ ReadOk(mreads[i].chain, mreads[i].table)
    /\ \E rows \in Answers(mreads[i].table, mreads[i].n0) :
          /\ mreads' = [mreads EXCEPT ![i].st = "done",
                                      ![i].n = Len(rows),
                                      ![i].seq = ReadsDone + 1]
          /\ rowCount' = [set |-> TRUE, n |-> Len(rows)]
    /\ isLoading' = FALSE
    /\ UNCHANGED <<mounted, signer, chainId, tableName, schema, data, pendingWriteTx,
                   creates, writes, polls, livePoll, effDeps, refreshes, applied>>

\* read() threw: handleRead throws at its await (App.tsx:378).
ReadFail(i) ==
    /\ mounted
    /\ mreads[i].st = "run"
    /\ mreads' = [mreads EXCEPT ![i].st = "failed"]
    /\ UNCHANGED <<ui, creates, writes, polls, livePoll, effDeps, refreshes, applied>>

\* ------------------------------------------------------------ polling

\* Mutant of PollCatch: a .catch handler that does nothing.
PollCatchSilent(p) ==
    /\ polls[p].st = "query" \/ (polls[p].aborted /\ polls[p].st \in {"query", "wait"})
    /\ polls' = [polls EXCEPT ![p].st = "rejected"]
    /\ UNCHANGED <<ui, creates, writes, mreads, livePoll, effDeps, refreshes, applied>>

\* Mutant of ClearPendingTxAndRefresh: the read is issued and pendingWriteTx
\* is left set until the read has returned.
ClearKeepsPending(p, how) ==
    /\ refreshes' = Append(refreshes,
           [poll |-> p, tx |-> polls[p].tx, chain |-> polls[p].chain,
            table |-> polls[p].table, n0 |-> Len(Rows(polls[p].table)),
            st |-> "inflight"])
    /\ polls' = [polls EXCEPT ![p].st = how]
    /\ UNCHANGED <<ui, creates, writes, mreads, livePoll, effDeps, applied>>

\* clearPendingTxAndRefresh as captured by poll p (App.tsx:235-239), up to
\* its await: setPendingWriteTx(undefined) and read(chainId, tableName) with
\* the values of the render that started p.  how is the settlement of p's
\* promise that called it.  Before React renders the cleared state it runs
\* the effects still due from the previous render.
ClearPendingTxAndRefresh(p, how) ==
    LET settled == [polls EXCEPT ![p].st = how]
        renders == mounted /\ pendingWriteTx # Undefined
    IN  /\ refreshes' = Append(refreshes,
               [poll |-> p, tx |-> polls[p].tx, chain |-> polls[p].chain,
                table |-> polls[p].table, n0 |-> Len(Rows(polls[p].table)),
                st |-> "inflight"])
        /\ pendingWriteTx' = IF mounted THEN Undefined ELSE pendingWriteTx
        /\ polls' = IF renders THEN AfterPollEffect(settled).polls ELSE settled
        /\ livePoll' = IF renders THEN AfterPollEffect(settled).live ELSE livePoll
        /\ data' = IF renders /\ ResetDue THEN <<>> ELSE data
        /\ rowCount' = IF renders /\ ResetDue THEN NoCount ELSE rowCount
        /\ effDeps' = IF renders THEN CurDeps ELSE effDeps
        /\ UNCHANGED <<mounted, signer, chainId, tableName, schema, isLoading,
                       creates, writes, mreads, applied>>

\* The poller's next status query, `interval` after a "not yet seen" answer;
\* an aborted poll issues none.
PollTick(p) ==
    /\ polls[p].st = "wait"
    /\ ~polls[p].aborted
    /\ polls' = [polls EXCEPT ![p].st = "query"]
    /\ UNCHANGED <<ui, creates, writes, mreads, livePoll, effDeps, refreshes, applied>>

\* Mutant of PollNotSeen: a poller that takes any answer for a confirmation.
PollNotSeenResolves(p) ==
    /\ polls[p].st = "query"
    /\ ~polls[p].aborted
    /\ ~Seen(polls[p].tx, polls[p].chain)
    /\ ClearPendingTxAndRefresh(p, "resolved")

\* The validator answers "not yet seen": the poll keeps going.
PollNotSeen(p) ==
    /\ polls[p].st = "query"
    /\ ~polls[p].aborted
    /\ ~Seen(polls[p].tx, polls[p].chain)
    /\ polls' = [polls EXCEPT ![p].st = "wait"]
    /\ UNCHANGED <<ui, creates, writes, mreads, livePoll, effDeps, refreshes, applied>>

\* The promise of poll p is fulfilled: the validator answers "seen" to the
\* query in flight.
PollerFulfils(p) ==
    /\ polls[p].st = "query"
    /\ Seen(polls[p].tx, polls[p].chain)

\* The promise of poll p is rejected: the query in flight failed, or the
\* signal was aborted while the poll was running.
PollerRejects(p) ==
    \/ polls[p].st = "query"
    \/ polls[p].aborted /\ Unsettled(p)

\* The .then handler of the poll (App.tsx:302-304).
PollThen(p) ==
    /\ PollerFulfils(p)
    /\ ClearPendingTxAndRefresh(p, "resolved")

\* The .catch handler of the poll (App.tsx:305-307).
PollCatch(p) ==
    /\ PollerRejects(p)
    /\ ClearPendingTxAndRefresh(p, "rejected")

\* The read of clearPendingTxAndRefresh returned: setData (App.tsx:238).
RefreshReturn(r) ==
    /\ mounted
    /\ ~EffectsDue
    /\ refreshes[r].st = "inflight"
    /\ ReadOk(refreshes[r].chain, refreshes[r].table)
    /\ refreshes' = [refreshes EXCEPT ![r].st = "done"]
    /\ data' \in Answers(refreshes[r].table, refreshes[r].n0)
    /\ UNCHANGED <<mounted, signer, chainId, tableName, schema, rowCount, isLoading,
                   pendingWriteTx, creates, writes, mreads, polls, livePoll, effDeps,
                   applied>>

\* The read of clearPendingTxAndRefresh threw (App.tsx:237).
RefreshFail(r) ==
    /\ mounted
    /\ refreshes[r].st = "inflight"
    /\ refreshes' = [refreshes EXCEPT ![r].st = "failed"]
    /\ UNCHANGED <<ui, creates, writes, mreads, polls, livePoll, effDeps, applied>>

\* The component unmounts: the effect cleanup aborts the running poll.
Unmount ==
    /\ mounted
    /\ Events < MaxEvents
    /\ ~EffectsDue
    /\ mounted' = FALSE
    /\ polls' = Abort(polls, livePoll, 0)
    /\ livePoll' = 0
    /\ UNCHANGED <<signer, chainId, tableName, schema, data, rowCount, isLoading,
                   pendingWriteTx, creates, writes, mreads, effDeps, refreshes, applied>>

Next ==
    \/ \E c \in Chains : HandleConnect(c)
    \/ CreateStart
    \/ \E i \in DOMAIN creates : CreateSubmitted(i)
    \/ \E i \in DOMAIN creates : CreateConfirmed(i)
    \/ \E i \in DOMAIN creates : CreateReturn(i)
    \/ \E i \in DOMAIN creates : CreateFail(i)
    \/ WriteStart
    \/ \E w \in DOMAIN writes : WriteReturn(w)
    \/ \E w \in DOMAIN writes : WriteFail(w)
    \/ \E w \in DOMAIN writes : ValidatorSees(w)
    \/ ReadStart
    \/ \E i \in DOMAIN mreads : ReadReturn(i)
    \/ \E i \in DOMAIN mreads : ReadFail(i)
    \/ \E p \in DOMAIN polls : PollTick(p)
    \/ \E p \in DOMAIN polls : PollNotSeen(p)
    \/ \E p \in DOMAIN polls : PollThen(p)
    \/ \E p \in DOMAIN polls : PollCatch(p)
    \/ \E r \in DOMAIN refreshes : RefreshReturn(r)
    \/ \E r \in DOMAIN refreshes : RefreshFail(r)
    \/ FlushEffects
    \/ Unmount

Spec == Init /\ [][Next]_vars

\* The effects of a render run, the poller keeps its cadence, the validator
\* keeps answering and an aborted poll is rejected: a status query that is
\* due is issued, and an answer or a rejection that is due arrives.
PollFairness ==
    /\ WF_vars(FlushEffects)
    /\ \A p \in 1..MaxEvents :
        /\ WF_vars(p \in DOMAIN polls /\ PollTick(p))
        /\ WF_vars(p \in DOMAIN polls /\ PollNotSeen(p))
        /\ WF_vars(p \in DOMAIN polls /\ PollThen(p))
        /\ WF_vars(p \in DOMAIN polls /\ polls[p].aborted /\ PollCatch(p))

FairSpec == Spec /\ PollFairness

\* The network answers create(): the submission of the CREATE TABLE
\* statement and the schema lookup return.  Nothing makes the chain confirm
\* the transaction, so the confirmation wait has no fairness.
CreateFairness ==
    \A i \in 1..MaxEvents :
        /\ WF_vars(i \in DOMAIN creates /\ CreateSubmitted(i))
        /\ WF_vars(i \in DOMAIN creates /\ CreateReturn(i))

FairCreateSpec == FairSpec /\ CreateFairness

\* The network answers the read of clearPendingTxAndRefresh: with the rows,
\* or with an error when the table does not exist on the chain asked.
RefreshFairness ==
    \A r \in 1..MaxEvents :
        /\ WF_vars(r \in DOMAIN refreshes /\ RefreshReturn(r))
        /\ WF_vars(/\ r \in DOMAIN refreshes
                   /\ ~ReadOk(refreshes[r].chain, refreshes[r].table)
                   /\ RefreshFail(r))

FairRefreshSpec == FairSpec /\ RefreshFairness

\* ------------------------------------------------------------- claims

Settled(p) == polls[p].st \in {"resolved", "rejected"}

\* The write registered last by setPendingWriteTx(tx): the pending one, or
\* else the one of the newest poll (the effect starts a poll for every
\* registered write before the next render).
LastWrite ==
    IF pendingWriteTx # Undefined THEN pendingWriteTx
    ELSE IF polls = <<>> THEN 0 ELSE polls[Len(polls)].tx

\* C1: of the writes registered one after another while the earlier ones
\* were still pending, only the last one's poll ever invokes
\* clearPendingTxAndRefresh (no refresh comes from a poll whose write was
\* replaced), and every earlier poll is aborted before the next one starts.
C1_OnlyLastPollRefreshes ==
    /\ \A r \in DOMAIN refreshes : polls[refreshes[r].poll].supBy = 0
    /\ \A p, q \in DOMAIN polls : p < q => polls[p].aborted

\* C2: once a poll's controller has been aborted while the poll was still
\* running, clearPendingTxAndRefresh is never invoked on behalf of that
\* poll: the poll never settles and no refresh read is issued for it.
C2_NoRefreshAfterCancel ==
    [][\A p \in DOMAIN polls :
          (polls[p].aborted /\ Unsettled(p))
             => /\ polls'[p].st \in {"query", "wait"}
                /\ \A r \in DOMAIN refreshes' :
                      refreshes'[r].poll = p => r \in DOMAIN refreshes]_vars

\* C3: at most one poll has a non-aborted cancellation token: when the
\* effect starts a poll, every poll started before it has been aborted.
C3_AtMostOneLiveToken ==
    \A p, q \in DOMAIN polls : p < q => polls[p].aborted

\* C3 witness: a second poll is running and the first one's token is aborted.
C3_Witness ==
    /\ Len(polls) >= 2
    /\ ~polls[Len(polls)].aborted
    /\ Unsettled(1)
    /\ polls[1].aborted

\* C4: pendingWriteTx is set exactly when some write has been accepted and
\* the one registered last (the others are replaced) has not been resolved
\* by a poll of its own.
C4_PendingIffOutstanding ==
    mounted =>
        ((pendingWriteTx # Undefined) <=>
            /\ LastWrite # 0
            /\ \A p \in DOMAIN polls : polls[p].tx = LastWrite => ~Settled(p))

\* C5: a pending handle that the validator has seen is eventually cleared or
\* replaced, whatever the user does meanwhile (reconnect, create).
C5_PendingExits ==
    \A h \in 1..MaxEvents :
        (mounted /\ pendingWriteTx = h /\ InSeq(h, applied))
            ~> (pendingWriteTx # h \/ ~mounted)

\* C6: a single write whose polls get only "not yet seen" and "seen" answers
\* (no poll is rejected) causes at most one post-confirmation refresh read,
\* also when the polling effect re-runs for the same handle.
C6_OneRefreshPerWrite ==
    (Len(writes) = 1 /\ \A p \in DOMAIN polls : polls[p].st # "rejected")
        => Len(refreshes) <= 1

C8_RefreshesNotInterleaved ==
    \A r1, r2 \in DOMAIN refreshes :
        (/\ refreshes[r1].st = "inflight"
         /\ refreshes[r2].st = "inflight"
         /\ polls[refreshes[r1].poll].st = "resolved"
         /\ polls[refreshes[r2].poll].st = "resolved")
            => ~(polls[refreshes[r1].poll].supBy # 0
                 /\ polls[refreshes[r1].poll].supBy = refreshes[r2].tx)

\* C9 as stated: after a poll resolves, pendingWriteTx stays set to the
\* resolved handle until the refresh read has returned.
C9_PendingHeldUntilRefreshDone ==
    \A r \in DOMAIN refreshes :
        (mounted /\ refreshes[r].st = "inflight" /\ polls[refreshes[r].poll].st = "resolved")
            => pendingWriteTx = refreshes[r].tx

\* C9 as amended: the step in which a poll settles clears pendingWriteTx and
\* issues the refresh read, which is still in flight after the step; the
\* step does not replace data (only a reset effect that was still due can
\* empty it).
C9_ClearedWhenRefreshIssued ==
    [][\A p \in DOMAIN polls :
          (mounted /\ Unsettled(p) /\ ~(polls'[p].st \in {"query", "wait"}))
             => /\ pendingWriteTx' = Undefined
                /\ Len(refreshes') = Len(refreshes) + 1
                /\ refreshes'[Len(refreshes')].poll = p
                /\ refreshes'[Len(refreshes')].st = "inflight"
                /\ (data' = data \/ (ResetDue /\ data' = <<>>))]_vars

\* C9 witness: a resolved poll's refresh read is in flight while another
\* write is already registered as pending.
C9_Witness ==
    \E r \in DOMAIN refreshes :
        /\ mounted
        /\ refreshes[r].st = "inflight"
        /\ polls[refreshes[r].poll].st = "resolved"
        /\ polls[refreshes[r].poll].supBy = 0
        /\ pendingWriteTx # Undefined
        /\ pendingWriteTx # refreshes[r].tx

\* C10 as stated: handleWrite starts a submission only when no write is
\* pending and no other submission is in flight.
C10_WriteOnlyWhenIdle ==
    [][Len(writes') > Len(writes)
          => (pendingWriteTx = Undefined
              /\ \A w \in DOMAIN writes : writes[w].st # "submitting")]_vars

\* C10 as amended: handleWrite starts a submission only when a signer and a
\* table name are set; a pending write or a submission in flight does not
\* prevent it.
C10_WriteOnlyWhenTableSet ==
    [][Len(writes') > Len(writes)
          => (mounted /\ signer # Undefined /\ tableName # Undefined)]_vars

\* C10 witness: a submission that was started while another write was
\* pending is in flight.
C10_Witness ==
    \E w \in DOMAIN writes :
        /\ writes[w].st = "submitting"
        /\ writes[w].over # Undefined
        /\ writes[writes[w].over].st = "accepted"

\* C11: a write() that fails is not retried, registers no pending operation
\* and starts no poll: the step in which handleWrite throws leaves
\* pendingWriteTx, data, tableName, the polls and the refresh reads as they
\* were, and no new submission is started by it.
C11_FailedWriteChangesNothing ==
    [][\A w \in DOMAIN writes :
          (writes[w].st = "submitting" /\ writes'[w].st = "failed")
             => /\ pendingWriteTx' = pendingWriteTx
                /\ data' = data
                /\ tableName' = tableName
                /\ polls' = polls
                /\ livePoll' = livePoll
                /\ refreshes' = refreshes
                /\ Len(writes') = Len(writes)]_vars

\* C11 witness: a write has failed while an earlier write is pending and its
\* poll is running.
C11_Witness ==
    \E w \in DOMAIN writes :
        /\ writes[w].st = "failed"
        /\ pendingWriteTx # Undefined
        /\ pendingWriteTx # w
        /\ livePoll # 0
        /\ Unsettled(livePoll)
        /\ ~polls[livePoll].aborted

\* C12: a poll whose promise is rejected ends like one that is resolved: the
\* step clears pendingWriteTx and issues the refresh read for the poll's
\* chain and table, and what the component holds afterwards is what a
\* resolution in the same state would have left.
C12_RejectionRunsSameCallback ==
    [][\A p \in DOMAIN polls :
          (Unsettled(p) /\ polls'[p].st = "rejected")
             => /\ mounted => pendingWriteTx' = Undefined
                /\ refreshes' = Append(refreshes,
                       [poll |-> p, tx |-> polls[p].tx, chain |-> polls[p].chain,
                        table |-> polls[p].table, n0 |-> Len(Rows(polls[p].table)),
                        st |-> "inflight"])
                /\ [polls' EXCEPT ![p].st = "resolved"]
                      = (IF mounted /\ pendingWriteTx # Undefined
                         THEN AfterPollEffect([polls EXCEPT ![p].st = "resolved"]).polls
                         ELSE [polls EXCEPT ![p].st = "resolved"])]_vars

\* C12 witness: a poll ended with a rejection, pendingWriteTx is cleared and
\* the refresh read it issued is in flight.
C12_Witness ==
    \E r \in DOMAIN refreshes :
        /\ mounted
        /\ polls[refreshes[r].poll].st = "rejected"
        /\ ~polls[refreshes[r].poll].aborted
        /\ refreshes[r].st = "inflight"
        /\ pendingWriteTx = Undefined

\* C13: provisioning is ordered: the schema lookup is issued only once the
\* confirmation wait has returned, tableName and schema are set only by the
\* step in which the lookup returns, and the schema set is the validator's
\* answer for that table.
C13_ProvisioningOrdered ==
    [][/\ \A i \in DOMAIN creates :
            /\ (creates[i].st # "lookup" /\ creates'[i].st = "lookup")
                  => creates[i].st = "wait"
            /\ (creates[i].st # "done" /\ creates'[i].st = "done")
                  => (creates[i].st = "lookup" /\ ~creates[i].failed)
       /\ tableName' # Undefined
            => /\ creates'[tableName'].st = "done"
               /\ schema' = [table |-> tableName', from |-> "validator"]]_vars

\* C13 witness: a create went through submission, confirmation and lookup,
\* and its table name and schema are in the state.
C13_Witness ==
    /\ tableName # Undefined
    /\ creates[tableName].st = "done"
    /\ schema = [table |-> tableName, from |-> "validator"]

\* C14: every handleCreate call ends: a create() that is running eventually
\* returns or fails, and isLoading does not stay true forever on its account.
C14_ProvisioningTerminates ==
    \A i \in 1..MaxEvents :
        (mounted /\ i \in DOMAIN creates /\ CreateRunning(i))
            ~> (~mounted \/ (i \in DOMAIN creates /\ ~CreateRunning(i)))

\* C15: tableName and schema change only in the step in which a create()
\* returns, both in that step and both to that create's table; a create()
\* that fails at any of its awaits leaves them as they were.
C15_DescriptorOnlyByCreate ==
    [][/\ (tableName' # tableName \/ schema' # schema)
            => \E i \in DOMAIN creates :
                  /\ creates[i].st = "lookup"
                  /\ creates'[i].st = "done"
                  /\ tableName' = i
                  /\ schema'.table = i
       /\ \A i \in DOMAIN creates :
            (~creates[i].failed /\ creates'[i].failed)
               => (tableName' = tableName /\ schema' = schema)]_vars

\* C15 witness: after a successful create, later creates have failed at the
\* submission, confirmation or lookup, and the descriptor is still the first.
C15_Witness ==
    \E i, j \in DOMAIN creates :
        /\ creates[i].st = "done"
        /\ tableName = i
        /\ schema.table = i
        /\ i < j
        /\ creates[j].failed
        /\ creates[j].st = "lookup"

\* C16: pendingWriteTx changes only when a write() returns (to that write's
\* tx) or when a poll of the handle that is pending settles (to undefined);
\* the callback of an older handle's poll never clears a newer handle.
C16_PendingChangesOnlyByOwner ==
    [][pendingWriteTx' # pendingWriteTx
          => \/ \E w \in DOMAIN writes :
                   /\ writes[w].st = "submitting"
                   /\ writes'[w].st = "accepted"
                   /\ pendingWriteTx' = w
             \/ \E p \in DOMAIN polls :
                   /\ Unsettled(p)
                   /\ polls'[p].st \in {"resolved", "rejected"}
                   /\ polls[p].tx = pendingWriteTx
                   /\ pendingWriteTx' = Undefined]_vars

\* C17: once the effects of a render with a new tableName have run, data is
\* empty until a refresh read addressed to that table has returned, and
\* rowCount is undefined until a handleRead addressed to it has returned.
C17_ResetUntilNewTableRead ==
    (mounted /\ ~EffectsDue /\ tableName # Undefined)
        => /\ (\A r \in DOMAIN refreshes :
                  ~(refreshes[r].st = "done" /\ refreshes[r].table = tableName))
                => data = <<>>
           /\ (\A i \in DOMAIN mreads :
                  ~(mreads[i].st = "done" /\ mreads[i].table = tableName))
                => rowCount = NoCount

\* C18: the loading overlay is shown whenever a create() or a manual read is
\* in progress or a write is pending.
C18_OverlayWhileBusy ==
    (/\ mounted
     /\ \/ \E i \in DOMAIN creates : CreateRunning(i)
        \/ \E i \in DOMAIN mreads : mreads[i].st = "run"
        \/ pendingWriteTx # Undefined)
        => (pendingWriteTx # Undefined \/ isLoading)

\* C19: when no handleCreate and no handleRead call is in progress, whether
\* the earlier ones returned or failed, isLoading is false.
C19_LoadingClearedWhenIdle ==
    (/\ mounted
     /\ \A i \in DOMAIN creates : ~CreateRunning(i)
     /\ \A i \in DOMAIN mreads : mreads[i].st # "run")
        => ~isLoading

C21_ConfirmationObserved ==
    \A w \in 1..MaxEvents :
        (/\ mounted
         /\ pendingWriteTx = w
         /\ InSeq(w, applied)
         /\ writes[w].chain = creates[writes[w].table].chain)
            ~> \/ ~mounted
               \/ InSeq(w, data)
               \/ pendingWriteTx \notin {Undefined, w}
               \/ (w \in DOMAIN writes /\ tableName # writes[w].table)
               \/ \E r \in DOMAIN refreshes :
                     refreshes[r].tx = w /\ refreshes[r].st = "failed"

\* C22: once the effects of the committed render have run, every row in data
\* was read from the table that tableName names: no read started for an
\* earlier table stores its result after tableName has changed.
C22_DataOfCurrentTable ==
    (mounted /\ ~EffectsDue)
        => \A k \in DOMAIN data : writes[data[k]].table = tableName

\* C23: when a refresh read returns after a refresh read that was started
\* later has already returned and filled data (both for the current table),
\* it does not overwrite data.
C23_LastStartedReadWins ==
    [][\A r, q \in DOMAIN refreshes :
          (/\ r < q
           /\ refreshes[q].st = "done"
           /\ refreshes[r].st = "inflight"
           /\ refreshes'[r].st = "done"
           /\ refreshes[r].table = tableName
           /\ refreshes[q].table = tableName
           /\ data # <<>>)
             => data' = data]_vars

====
